---- MODULE Spec2Model ----
(***************************************************************************)
(* A model of the Bencode decoder of src/src/lib.rs.                       *)
(*                                                                         *)
(* The crate is one pure, recursive function, decode(input), from a byte   *)
(* slice to Ok((BValue, consumed)), Err(message) or a panic.  A byte is a  *)
(* number in 0..255, a slice is a sequence of bytes, and Rust's 0-based    *)
(* index idx is kept: the byte input[idx] of the source is input[idx + 1]  *)
(* here.  A panic (an index past the end of the slice, an unwrap of an     *)
(* Err, an arithmetic overflow) is a third kind of result, so that "never  *)
(* panics" is a statement the model can refute, and the abort of the       *)
(* process, on an exhausted call stack or on a block of memory the         *)
(* allocator refuses, is a fourth.                                         *)
(*                                                                         *)
(* Four things depend on how the crate is built and run, not on the        *)
(* source: whether idx + len is overflow-checked (a debug build panics, a  *)
(* release build wraps), how many nested calls of decode the stack holds   *)
(* at the moment of the call (none, when the caller has used it up), how   *)
(* much of the stack a panic takes for itself, and whether the allocator   *)
(* has the blocks the call asks for.  They are part of the state and are   *)
(* chosen freely.                                                          *)
(*                                                                         *)
(* The allocator is asked for a block by every String::from of a message,  *)
(* by the first push to the digits of an integer, to a list and to a       *)
(* dictionary, by from_utf8_lossy of a prefix that is not UTF-8, by to_vec *)
(* of a body that is not empty, and by a panic (its message and its        *)
(* payload are boxed).  A refused block aborts the process, whichever of   *)
(* the blocks it is; allocFails refuses them all, so that a call aborts    *)
(* where it asks for its first block.  A call that asks for none, such as  *)
(* decode(b"e") and decode(b"le"), returns all the same.                   *)
(***************************************************************************)
EXTENDS Integers, Sequences, FiniteSets

VARIABLES
  input,    \* the byte slice handed to decode
  origin,   \* how the slice was assembled (the parts it was built from)
  result,   \* what decode returned for it, NotRun before the call
  overflowChecks,  \* the build checks integer overflow (debug) or wraps (release)
  stackFrames,     \* the number of nested calls of decode the stack holds
  panicFrames,     \* the stack a panic takes, in frames of decode
  allocFails       \* the allocator refuses the blocks the call asks for

vars ==
  <<input, origin, result, overflowChecks, stackFrames, panicFrames, allocFails>>

(***************************************************************************)
(* Delimiters (src/src/lib.rs:5-9).                                        *)
(***************************************************************************)
INT_DELIM_BEGIN == 105
DICT_DELIM_BEGIN == 100
LIST_DELIM_BEGIN == 108
DELIM_END == 101
COLON_DELIM == 58

\* The range of i16, the payload of BValue::Int.
I16_MAX == 32767
I16_MIN == -32768

(***************************************************************************)
(* Slices.                                                                 *)
(***************************************************************************)
\* &input[idx..]
SliceFrom(s, idx) == SubSeq(s, idx + 1, Len(s))

\* &input[from..to]
Slice(s, from, to) == SubSeq(s, from + 1, to)

\* &input[..n]
Take(s, n) == SubSeq(s, 1, n)

IsDigit(b) == b >= 48 /\ b <= 57

(***************************************************************************)
(* BValue (src/src/lib.rs:11-18).  A Str holds its bytes, a Dict is a      *)
(* function from its keys (byte sequences) to values: two Dicts are equal  *)
(* when they hold the same pairs, as for HashMap's PartialEq.              *)
(***************************************************************************)
BStr(s) == [tag |-> "Str", val |-> s]
BInt(n) == [tag |-> "Int", val |-> n]
BList(l) == [tag |-> "List", val |-> l]
BDict(m) == [tag |-> "Dict", val |-> m]
BNone == [tag |-> "None", val |-> <<>>]

\* HashMap::new()
EmptyMap == <<>>

\* dict.insert(key, val): a later value replaces an earlier one of the same key
MapInsert(m, key, v) == [k \in (DOMAIN m) \cup {key} |-> IF k = key THEN v ELSE m[k]]

\* Option<T>
NoneOpt == [some |-> FALSE, val |-> <<>>]
SomeOpt(v) == [some |-> TRUE, val |-> v]

(***************************************************************************)
(* Result<(BValue, usize), String>, and a panic.                           *)
(***************************************************************************)
Ok(v, n) == [kind |-> "Ok", value |-> v, consumed |-> n]
Err(msg) == [kind |-> "Err", value |-> msg, consumed |-> 0]
Panic(why) == [kind |-> "Panic", value |-> why, consumed |-> 0]
\* The process is aborted, nothing returns: "thread has overflowed its stack",
\* "memory allocation failed".
Abort(why) == [kind |-> "Abort", value |-> why, consumed |-> 0]
NotRun == [kind |-> "NotRun", value |-> "", consumed |-> 0]

(***************************************************************************)
(* str::parse::<i16> (called at src/src/lib.rs:49-51): an optional '+' or  *)
(* '-', then one or more ASCII digits, leading zeros allowed; any other    *)
(* byte, no digit at all, or a value outside i16 is an error.  The digits  *)
(* are accumulated left to right as the library does, and the running      *)
(* value stops at the first overflow.                                      *)
(***************************************************************************)
ParseFail == [ok |-> FALSE, val |-> 0]
ParseOk(n) == [ok |-> TRUE, val |-> n]

RECURSIVE AccI16(_, _, _, _)
AccI16(digits, k, acc, neg) ==
  IF k > Len(digits) THEN ParseOk(acc)
  ELSE IF ~IsDigit(digits[k]) THEN ParseFail
  ELSE LET d == digits[k] - 48
           next == IF neg THEN acc * 10 - d ELSE acc * 10 + d
       IN IF next > I16_MAX \/ next < I16_MIN THEN ParseFail
          ELSE AccI16(digits, k + 1, next, neg)

ParseI16(span) ==
  IF Len(span) = 0 THEN ParseFail
  ELSE IF span[1] = 43 \/ span[1] = 45
       THEN IF Len(span) = 1 THEN ParseFail
            ELSE AccI16(Tail(span), 1, 0, span[1] = 45)
       ELSE AccI16(span, 1, 0, FALSE)

(***************************************************************************)
(* usize.  Its values reach 2^64 - 1, so a usize is kept exactly as three  *)
(* limbs <<h, m, l>> in base 10^7, worth h * 10^14 + m * 10^7 + l, each of  *)
(* m and l below 10^7.                                                     *)
(***************************************************************************)
\* usize::MAX = 18446744073709551615
UsizeMax == <<184467, 4407370, 9551615>>

\* An index or a length of a slice as a usize.
Usize(n) ==
  <<(n \div 10000000) \div 10000000, (n \div 10000000) % 10000000, n % 10000000>>

\* A usize that is an index or a length of a slice, as a number.
ToNat(a) == (a[1] * 10000000 + a[2]) * 10000000 + a[3]

\* a <= b
BigLeq(a, b) ==
  \/ a[1] < b[1]
  \/ a[1] = b[1] /\ a[2] < b[2]
  \/ a[1] = b[1] /\ a[2] = b[2] /\ a[3] <= b[3]

\* a * 10 + d for a digit d; the top limb takes what does not fit below it.
BigMul10Add(a, d) ==
  LET l == a[3] * 10 + d
      m == a[2] * 10 + (l \div 10000000)
      h == a[1] * 10 + (m \div 10000000)
  IN <<h, m % 10000000, l % 10000000>>

\* a + n for an index n of a slice.
BigAdd(a, n) ==
  LET b == Usize(n)
      l == a[3] + b[3]
      m == a[2] + b[2] + (l \div 10000000)
      h == a[1] + b[1] + (m \div 10000000)
  IN <<h, m % 10000000, l % 10000000>>

(***************************************************************************)
(* str::parse::<usize> (called at src/src/lib.rs:119-121): an optional     *)
(* '+', then one or more ASCII digits, leading zeros allowed; the exact    *)
(* value, or an error for any other byte, for no digit at all and for a    *)
(* value above usize::MAX.                                                 *)
(***************************************************************************)
RECURSIVE AccUsize(_, _, _)
AccUsize(digits, k, acc) ==
  IF k > Len(digits) THEN ParseOk(acc)
  ELSE IF ~IsDigit(digits[k]) THEN ParseFail
  ELSE LET next == BigMul10Add(acc, digits[k] - 48)
       IN IF ~BigLeq(next, UsizeMax) THEN ParseFail
          ELSE AccUsize(digits, k + 1, next)

ParseUsize(span) ==
  IF Len(span) = 0 THEN ParseFail
  ELSE IF span[1] = 43 \/ span[1] = 45
       THEN IF Len(span) = 1 \/ span[1] = 45 THEN ParseFail
            ELSE AccUsize(Tail(span), 1, Usize(0))
       ELSE AccUsize(span, 1, Usize(0))

(***************************************************************************)
(* UTF-8, as String::from_utf8 (called at src/src/lib.rs:127) and          *)
(* String::from_utf8_lossy (called at src/src/lib.rs:118) read it.         *)
(* Utf8Step reads the sequence that starts at s[k]: ok says whether it is  *)
(* well formed, n is its length, or, when it is not, the length of its     *)
(* longest part that could still start a well-formed sequence (at least    *)
(* the lead byte).                                                         *)
(***************************************************************************)
IsCont(s, k) == k <= Len(s) /\ s[k] >= 128 /\ s[k] <= 191

\* The second byte of a 3- or 4-byte sequence with lead byte b.
IsSecond(b, s, k) ==
  /\ k <= Len(s)
  /\ s[k] >= (IF b = 224 THEN 160 ELSE IF b = 240 THEN 144 ELSE 128)
  /\ s[k] <= (IF b = 237 THEN 159 ELSE IF b = 244 THEN 143 ELSE 191)

Utf8Step(s, k) ==
  LET b == s[k] IN
  IF b < 128 THEN [ok |-> TRUE, n |-> 1]
  ELSE IF b >= 194 /\ b <= 223
    THEN IF IsCont(s, k + 1) THEN [ok |-> TRUE, n |-> 2] ELSE [ok |-> FALSE, n |-> 1]
  ELSE IF b >= 224 /\ b <= 239
    THEN IF ~IsSecond(b, s, k + 1) THEN [ok |-> FALSE, n |-> 1]
         ELSE IF ~IsCont(s, k + 2) THEN [ok |-> FALSE, n |-> 2]
         ELSE [ok |-> TRUE, n |-> 3]
  ELSE IF b >= 240 /\ b <= 244
    THEN IF ~IsSecond(b, s, k + 1) THEN [ok |-> FALSE, n |-> 1]
         ELSE IF ~IsCont(s, k + 2) THEN [ok |-> FALSE, n |-> 2]
         ELSE IF ~IsCont(s, k + 3) THEN [ok |-> FALSE, n |-> 3]
         ELSE [ok |-> TRUE, n |-> 4]
  ELSE [ok |-> FALSE, n |-> 1]

RECURSIVE IsUtf8From(_, _)
IsUtf8From(s, k) ==
  IF k > Len(s) THEN TRUE
  ELSE LET step == Utf8Step(s, k) IN step.ok /\ IsUtf8From(s, k + step.n)

\* String::from_utf8(bytes).is_ok()
IsUtf8(s) == IsUtf8From(s, 1)

\* String::from_utf8_lossy: every well-formed sequence is kept, every maximal
\* ill-formed part gives way to one U+FFFD (EF BF BD).
RECURSIVE LossyFrom(_, _)
LossyFrom(s, k) ==
  IF k > Len(s) THEN <<>>
  ELSE LET step == Utf8Step(s, k) IN
    (IF step.ok THEN SubSeq(s, k, k + step.n - 1) ELSE <<239, 191, 189>>)
      \o LossyFrom(s, k + step.n)

FromUtf8Lossy(s) == LossyFrom(s, 1)

(***************************************************************************)
(* while input[idx] != delim { idx += 1 }  (src/src/lib.rs:39-42 and       *)
(* 115-117): the index of the first delim at or after idx, or Len(input)   *)
(* when there is none, which is where the source indexes past the end.     *)
(***************************************************************************)
RECURSIVE ScanTo(_, _, _)
ScanTo(s, idx, delim) ==
  IF idx >= Len(s) THEN Len(s)
  ELSE IF s[idx + 1] = delim THEN idx
  ELSE ScanTo(s, idx + 1, delim)

(***************************************************************************)
(* A panic raised in the depth-th nested call of decode.  The panic runs   *)
(* on the same stack, above the frame that raises it: where the stack has  *)
(* no room for it, the process aborts as it does for a call too many.  It  *)
(* aborts as well where the allocator has no block for the panic.          *)
(***************************************************************************)
Raise(depth, why) ==
  IF depth + panicFrames > stackFrames THEN Abort("stack overflow")
  ELSE IF allocFails THEN Abort("memory allocation failed")
  ELSE Panic(why)

\* Err(String::from(msg)): the message is a block of its own.
ErrFrom(msg) ==
  IF allocFails THEN Abort("memory allocation failed") ELSE Err(msg)

(***************************************************************************)
(* The integer branch (src/src/lib.rs:31-54).                              *)
(***************************************************************************)
\* The integer branch with the closing 'e' left out of the consumed count.
DecodeIntNoEnd(s, depth) ==
  LET idx == ScanTo(s, 1, DELIM_END) IN
  \* vec.push of the first byte of the span, before the scan goes on
  IF Len(s) > 1 /\ s[2] # DELIM_END /\ allocFails
    THEN Abort("memory allocation failed")
  ELSE IF idx >= Len(s) THEN Raise(depth, "index out of bounds")
  ELSE LET n == Slice(s, 1, idx) IN
    IF Len(n) = 0 THEN ErrFrom("Decoding Error: Empty Integer Not-allowed.")
    ELSE LET p == ParseI16(n) IN
      IF ~p.ok THEN ErrFrom("Decoding Error: Ill-formatted Integer.")
      ELSE Ok(BInt(p.val), idx)

DecodeInt(s, depth) ==
  LET idx == ScanTo(s, 1, DELIM_END) IN
  \* vec.push of the first byte of the span, before the scan goes on
  IF Len(s) > 1 /\ s[2] # DELIM_END /\ allocFails
    THEN Abort("memory allocation failed")
  ELSE IF idx >= Len(s) THEN Raise(depth, "index out of bounds")
  ELSE LET n == Slice(s, 1, idx) IN
    IF Len(n) = 0 THEN ErrFrom("Decoding Error: Empty Integer Not-allowed.")
    ELSE LET p == ParseI16(n) IN
      IF ~p.ok THEN ErrFrom("Decoding Error: Ill-formatted Integer.")
      ELSE Ok(BInt(p.val), idx + 1)

(***************************************************************************)
(* The default branch: strings (src/src/lib.rs:112-130).                   *)
(***************************************************************************)
DecodeStr(s, depth) ==
  LET colon == ScanTo(s, 0, COLON_DELIM) IN
  IF colon >= Len(s) THEN Raise(depth, "index out of bounds")
  \* from_utf8_lossy borrows a prefix that is UTF-8 and builds a String of one
  \* that is not
  ELSE IF ~IsUtf8(Take(s, colon)) /\ allocFails
    THEN Abort("memory allocation failed")
  ELSE LET len == ParseUsize(FromUtf8Lossy(Take(s, colon))) IN
    IF ~len.ok THEN ErrFrom("Decoding Error. Invalid string length.")
    ELSE LET idx == colon + 1
             end == BigAdd(len.val, idx)
      IN
      \* idx + len above usize::MAX: a panic where overflow is checked; where it
      \* wraps, the end of the range lies before its start and get gives None.
      IF ~BigLeq(end, UsizeMax) /\ overflowChecks
        THEN Raise(depth, "attempt to add with overflow")
      \* ok_or takes its message built, whatever get gives; the next block is
      \* to_vec of the body, as long as the declared length
      ELSE IF allocFails THEN Abort("memory allocation failed")
      ELSE IF ~BigLeq(end, UsizeMax) \/ ~BigLeq(end, Usize(Len(s)))
        THEN Err("Decoding Error. Invalid string length.")
      ELSE LET string == Slice(s, idx, ToNat(end)) IN
        IF ~IsUtf8(string)
          THEN Raise(depth, "called Result::unwrap() on an Err value")
        ELSE Ok(BStr(string), ToNat(end))

(***************************************************************************)
(* decode (src/src/lib.rs:20-132), with the loops of its list and          *)
(* dictionary branches as recursive operators over the loop's variables.   *)
(* DecodeFrame is the body of decode run as the depth-th nested call: a    *)
(* call the stack has no room for aborts the process.  The first push to a *)
(* list and the first insert into a dictionary ask for a block.            *)
(***************************************************************************)
RECURSIVE DecodeFrame(_, _)
RECURSIVE ListLoop(_, _, _, _)
RECURSIVE DictLoop(_, _, _, _, _, _)

\* src/src/lib.rs:59-70; an Err (the ? operator), a panic or an abort of the
\* inner call ends the outer call with it.
ListLoop(s, idx, list, depth) ==
  LET r == DecodeFrame(SliceFrom(s, idx), depth + 1) IN
  IF r.kind # "Ok" THEN r
  ELSE IF r.value.tag = "None" THEN Ok(BList(list), idx + r.consumed)
  ELSE IF allocFails THEN Abort("memory allocation failed")
  ELSE ListLoop(s, idx + r.consumed, Append(list, r.value), depth)

\* src/src/lib.rs:78-110; key and val are key_val.0 and key_val.1.
DictLoop(s, idx, dict, key, val, depth) ==
  LET r == DecodeFrame(SliceFrom(s, idx), depth + 1) IN
  IF r.kind # "Ok" THEN r
  ELSE IF r.value.tag = "None" THEN Ok(BDict(dict), idx + r.consumed)
  ELSE LET isKey == r.value.tag = "Str" /\ ~key.some
           key2 == IF isKey THEN SomeOpt(r.value.val) ELSE key
           val2 == IF isKey THEN val ELSE SomeOpt(r.value)
       IN IF key2.some /\ val2.some /\ allocFails
          THEN Abort("memory allocation failed")
          ELSE IF key2.some /\ val2.some
          THEN DictLoop(s, idx + r.consumed, MapInsert(dict, key2.val, val2.val),
                        NoneOpt, NoneOpt, depth)
          ELSE DictLoop(s, idx + r.consumed, dict, key2, val2, depth)

DecodeFrame(s, depth) ==
  IF depth > stackFrames THEN Abort("stack overflow")
  ELSE IF Len(s) = 0 THEN ErrFrom("Decoding Err. Invalid input length.")
  ELSE IF s[1] = DELIM_END THEN Ok(BNone, 1)
  ELSE IF s[1] = INT_DELIM_BEGIN THEN DecodeInt(s, depth)
  ELSE IF s[1] = LIST_DELIM_BEGIN THEN ListLoop(s, 1, <<>>, depth)
  ELSE IF s[1] = DICT_DELIM_BEGIN
    THEN DictLoop(s, 1, EmptyMap, NoneOpt, NoneOpt, depth)
  ELSE DecodeStr(s, depth)

\* A call of decode by a user of the crate: the first frame.
decode(s) == DecodeFrame(s, 1)

(***************************************************************************)
(* Inputs.  decode is a pure function of its slice; the slices it is tried *)
(* on are drawn from nine families, and origin records the family and the  *)
(* parts the slice was assembled from:                                     *)
(*   raw    every byte sequence over Alphabet of at most MaxLen bytes;     *)
(*   lit    'i' <span> 'e' for every span over SpanBytes of at most        *)
(*          MaxSpan bytes;                                                 *)
(*   int    'i' <decimal n> 'e' for the n within MaxNear of 0, of the      *)
(*          least and of the greatest i16;                                 *)
(*   str    <decimal n> ':' <bytes>, n the declared length, the bytes      *)
(*          fewer than, exactly or more than n;                            *)
(*   list   'l' items 'e' and                                              *)
(*   dict   'd' items 'e' for up to MaxItems items out of Elems;           *)
(*   cut    the first n bytes of a well-formed encoding, n < its length;   *)
(*   more   a well-formed encoding with up to two more bytes behind it;     *)
(*   big    <digits> ':' <bytes> for declared lengths around usize::MAX    *)
(*          and around the limits of the limbs.                            *)
(* A panic takes 0..MaxPanic frames, and the stack holds from no call up   *)
(* to MaxLen + MaxPanic + 1 calls, which is room for every slice here: the *)
(* deepest call is the one on the empty rest of MaxLen opening bytes, the  *)
(* deepest panic is raised on the last of MaxLen bytes, and no encoding of *)
(* WellFormed nests deeper than that.                                      *)
(***************************************************************************)
MaxLen == 3
MaxSpan == 3
MaxNear == 100
MaxStrLen == 11
MaxItems == 4
MaxPanic == 1

\* Decimal ASCII of n >= 0, without leading zeros.
RECURSIVE ToDecimal(_)
ToDecimal(n) ==
  IF n < 10 THEN <<48 + n>> ELSE Append(ToDecimal(n \div 10), 48 + (n % 10))

\* Integer n on the wire: 'i', '-' for a negative n, the decimal, 'e'.
EncInt(n) ==
  <<INT_DELIM_BEGIN>> \o (IF n < 0 THEN <<45>> \o ToDecimal(-n) ELSE ToDecimal(n))
    \o <<DELIM_END>>

\* A string on the wire: its length in decimal, ':', its bytes.
EncStr(bytes) == ToDecimal(Len(bytes)) \o <<COLON_DELIM>> \o bytes

RECURSIVE Concat(_)
Concat(parts) == IF Len(parts) = 0 THEN <<>> ELSE Head(parts) \o Concat(Tail(parts))

\* A list and a dictionary on the wire, from the encodings of their items
\* (for a dictionary: key, value, key, value, ...).
EncList(parts) == <<LIST_DELIM_BEGIN>> \o Concat(parts) \o <<DELIM_END>>
EncDict(parts) == <<DICT_DELIM_BEGIN>> \o Concat(parts) \o <<DELIM_END>>

\* i l d e : - + 0 1 a
Alphabet == {INT_DELIM_BEGIN, LIST_DELIM_BEGIN, DICT_DELIM_BEGIN, DELIM_END,
             COLON_DELIM, 45, 43, 48, 49, 97}

\* Bytes of the spans between 'i' and 'e': - + 0 1 a
SpanBytes == {45, 43, 48, 49, 97}

\* The integers around 0 and around the two ends of i16.
Integers16 ==
  UNION {(c - MaxNear)..(c + MaxNear) : c \in {I16_MIN, 0, I16_MAX}}

SeqsUpTo(S, n) == UNION {[1..k -> S] : k \in 0..n}

\* n times the byte 'a', with byte b at position pos (pos = 0: nowhere).
Fill(n, pos, b) == [k \in 1..n |-> IF k = pos THEN b ELSE 97]

\* Bodies of strings: text, and text with one byte that is not 'a': a NUL, a ':',
\* an 'e', and 0xFF, which no UTF-8 text contains.
Bodies ==
  {Fill(n, pos, b) : n \in 0..(MaxStrLen + 1), pos \in 0..(MaxStrLen + 1),
                     b \in {0, COLON_DELIM, DELIM_END, 255}}

\* Items of the lists and dictionaries: "", "a", 1, ["a"].
Elems ==
  {EncStr(<<>>), EncStr(<<97>>), EncInt(1), EncList(<<EncStr(<<97>>)>>)}

\* Well-formed encodings, to decode whole, to cut short and to put bytes
\* behind; among them [{"a": [1]}] and {"a": {"a": 1}}.
WellFormed ==
  Elems \cup {EncInt(-1), EncInt(0), EncStr(<<98>>), EncStr(<<97, 97, 97>>),
              EncList(<<>>), EncDict(<<>>),
              EncDict(<<EncStr(<<97>>), EncInt(1)>>),
              EncList(<<EncDict(<<EncStr(<<97>>), EncList(<<EncInt(1)>>)>>)>>),
              EncDict(<<EncStr(<<97>>), EncDict(<<EncStr(<<97>>), EncInt(1)>>)>>),
              EncList(<<EncInt(1), EncList(<<>>)>>),
              EncDict(<<EncStr(<<97>>), EncInt(1), EncStr(<<98>>), EncList(<<>>)>>)}

\* Declared lengths in decimal: 9999999, 10000000, 4294967296,
\* 18446744073709551595, ...614, ...615 (usize::MAX), ...616,
\* 99999999999999999999 and 000000000000000000001.
BigLengths ==
  {<<57, 57, 57, 57, 57, 57, 57>>,
   <<49, 48, 48, 48, 48, 48, 48, 48>>,
   <<52, 50, 57, 52, 57, 54, 55, 50, 57, 54>>,
   <<49, 56, 52, 52, 54, 55, 52, 52, 48, 55, 51, 55, 48, 57, 53, 53, 49, 53, 57, 53>>,
   <<49, 56, 52, 52, 54, 55, 52, 52, 48, 55, 51, 55, 48, 57, 53, 53, 49, 54, 49, 52>>,
   <<49, 56, 52, 52, 54, 55, 52, 52, 48, 55, 51, 55, 48, 57, 53, 53, 49, 54, 49, 53>>,
   <<49, 56, 52, 52, 54, 55, 52, 52, 48, 55, 51, 55, 48, 57, 53, 53, 49, 54, 49, 54>>,
   <<57, 57, 57, 57, 57, 57, 57, 57, 57, 57, 57, 57, 57, 57, 57, 57, 57, 57, 57, 57>>,
   <<48, 48, 48, 48, 48, 48, 48, 48, 48, 48, 48, 48, 48, 48, 48, 48, 48, 48, 48, 48, 49>>}

\* Bytes behind an encoding: e 0 : l
Trailing == {DELIM_END, 48, COLON_DELIM, LIST_DELIM_BEGIN}

Origin(kind, n, items) == [kind |-> kind, n |-> n, items |-> items]

Init ==
  /\ result = NotRun
  /\ \/ /\ input \in SeqsUpTo(Alphabet, MaxLen)
        /\ origin = Origin("raw", 0, <<>>)
     \/ \E span \in SeqsUpTo(SpanBytes, MaxSpan) :
          /\ input = <<INT_DELIM_BEGIN>> \o span \o <<DELIM_END>>
          /\ origin = Origin("lit", 0, <<span>>)
     \/ \E n \in Integers16 :
          /\ input = EncInt(n)
          /\ origin = Origin("int", n, <<>>)
     \/ \E n \in 0..MaxStrLen, bytes \in Bodies :
          /\ input = ToDecimal(n) \o <<COLON_DELIM>> \o bytes
          /\ origin = Origin("str", n, <<bytes>>)
     \/ \E parts \in SeqsUpTo(Elems, MaxItems) :
          /\ input = EncList(parts)
          /\ origin = Origin("list", 0, parts)
     \/ \E parts \in SeqsUpTo(Elems, MaxItems) :
          /\ input = EncDict(parts)
          /\ origin = Origin("dict", 0, parts)
     \/ \E full \in WellFormed : \E n \in 0..(Len(full) - 1) :
          /\ input = Take(full, n)
          /\ origin = Origin("cut", n, <<full>>)
     \/ \E full \in WellFormed, extra \in SeqsUpTo(Trailing, 2) :
          /\ input = full \o extra
          /\ origin = Origin("more", 0, <<full, extra>>)
     \/ \E digits \in BigLengths, bytes \in SeqsUpTo({97}, 1) :
          /\ input = digits \o <<COLON_DELIM>> \o bytes
          /\ origin = Origin("big", 0, <<digits, bytes>>)
  /\ overflowChecks \in BOOLEAN
  /\ panicFrames \in 0..MaxPanic
  /\ stackFrames \in 0..(MaxLen + MaxPanic + 1)
  /\ allocFails \in BOOLEAN

\* The one operation of the crate: a call of decode on the slice.
Decode ==
  /\ result = NotRun
  /\ result' = decode(input)
  /\ UNCHANGED <<input, origin, overflowChecks, stackFrames, panicFrames,
                 allocFails>>

Next == Decode

Spec == Init /\ [][Next]_vars

(***************************************************************************)
(* What the claims speak of.                                               *)
(***************************************************************************)
Called == result.kind # "NotRun"

\* The call came back, with Ok, an Err or a panic: the process was not aborted.
Returned == Called /\ result.kind # "Abort"

\* decode takes the whole of part as one value.
Whole(part) ==
  LET r == decode(part) IN
  r.kind = "Ok" /\ r.consumed = Len(part) /\ r.value.tag # "None"

AllWhole(parts) == \A i \in 1..Len(parts) : Whole(parts[i])

ItemValues(parts) == [i \in 1..Len(parts) |-> decode(parts[i]).value]

RECURSIVE SumConsumed(_)
SumConsumed(parts) ==
  IF Len(parts) = 0 THEN 0
  ELSE decode(Head(parts)).consumed + SumConsumed(Tail(parts))

\* A canonical integer literal: "0", or an optional '-', a digit 1-9, digits.
IsCanonicalInt(span) ==
  LET digits == IF Len(span) > 0 /\ span[1] = 45 THEN Tail(span) ELSE span IN
  \/ span = <<48>>
  \/ /\ Len(digits) > 0
     /\ digits[1] >= 49 /\ digits[1] <= 57
     /\ \A k \in 1..Len(digits) : IsDigit(digits[k])

\* 'i' <span> 'e' with no 'e' in the span.
IsIntFrame(s) ==
  /\ Len(s) >= 2
  /\ s[1] = INT_DELIM_BEGIN
  /\ ScanTo(s, 1, DELIM_END) = Len(s) - 1

IntSpan(s) == Slice(s, 1, Len(s) - 1)

\* a < b in the lexicographic order of the raw bytes.
LexLess(a, b) ==
  \E k \in 1..(Len(a) + 1) :
    /\ k <= Len(b)
    /\ \A j \in 1..(k - 1) : a[j] = b[j]
    /\ (k = Len(a) + 1 \/ a[k] < b[k])

\* The items at the key positions of a dictionary's items: the 1st, 3rd, ...
KeyPositions(parts) == {i \in 1..Len(parts) : i % 2 = 1}

KeysAreStrings(parts) ==
  \A i \in KeyPositions(parts) : decode(parts[i]).value.tag = "Str"

KeyAt(parts, i) == decode(parts[i]).value.val

(***************************************************************************)
(* C1.  Whenever decode returns Ok((v, n)): 1 <= n <= len(input); the      *)
(* first n bytes alone decode to the same Ok((v, n)), so no byte at offset *)
(* n or beyond influences the result; and no shorter prefix decodes at     *)
(* all, so n is exactly the length of the one parsed value.                *)
(***************************************************************************)
InvC1 ==
  result.kind = "Ok" =>
    /\ result.consumed >= 1
    /\ result.consumed <= Len(input)
    /\ decode(Take(input, result.consumed)) = result
    /\ \A m \in 0..(result.consumed - 1) : decode(Take(input, m)).kind # "Ok"

\* A list that holds a dictionary that holds a list, decoded out of a slice
\* with bytes left over behind it.
WitC1 ==
  /\ result.kind = "Ok"
  /\ result.consumed < Len(input)
  /\ result.value.tag = "List"
  /\ \E i \in 1..Len(result.value.val) :
       /\ result.value.val[i].tag = "Dict"
       /\ \E k \in DOMAIN result.value.val[i].val :
            result.value.val[i].val[k].tag = "List"

(***************************************************************************)
(* C2 (as claimed).  Every proper prefix of a well-formed encoding makes   *)
(* decode return an Err: never a panic, never a success.  (Stated for the  *)
(* calls that come back, as are C3 to C8 and C10 below.)                   *)
(***************************************************************************)
CexC2 == (Returned /\ origin.kind = "cut") => result.kind = "Err"

(***************************************************************************)
(* C3 (as claimed).  'i' <span> 'e' with a span that is no canonical       *)
(* integer literal (empty, a leading zero, "-0", a '+', a non-digit) makes *)
(* decode return an Err.                                                   *)
(***************************************************************************)
CexC3 ==
  (Returned /\ IsIntFrame(input) /\ ~IsCanonicalInt(IntSpan(input)))
    => result.kind = "Err"

(***************************************************************************)
(* C4 (as claimed).  A dictionary whose items end with a key that has no   *)
(* value is an Err, with the closing 'e' after the key and with the input  *)
(* ending after the key.                                                   *)
(***************************************************************************)
CexC4 ==
  (/\ Returned
   /\ origin.kind = "dict"
   /\ Len(origin.items) % 2 = 1
   /\ AllWhole(origin.items)
   /\ KeysAreStrings(origin.items))
    => /\ result.kind = "Err"
       /\ decode(Take(input, Len(input) - 1)).kind = "Err"

(***************************************************************************)
(* C5 (as claimed).  A dictionary with an item at a key position (the      *)
(* first item, and the item after each key/value pair) that is no string   *)
(* is an Err.                                                              *)
(***************************************************************************)
CexC5 ==
  (/\ Returned
   /\ origin.kind = "dict"
   /\ AllWhole(origin.items)
   /\ ~KeysAreStrings(origin.items))
    => result.kind = "Err"

(***************************************************************************)
(* C6 (as claimed).  A dictionary of key/value pairs whose keys, in input  *)
(* order, are not strictly ascending by raw byte value (out of order, or   *)
(* repeated) is an Err.                                                    *)
(***************************************************************************)
CexC6 ==
  (/\ Returned
   /\ origin.kind = "dict"
   /\ Len(origin.items) % 2 = 0
   /\ AllWhole(origin.items)
   /\ KeysAreStrings(origin.items)
   /\ \E i \in KeyPositions(origin.items) :
        /\ i + 2 <= Len(origin.items)
        /\ ~LexLess(KeyAt(origin.items, i), KeyAt(origin.items, i + 2)))
    => result.kind = "Err"

(***************************************************************************)
(* C7 (as claimed).  An empty input, and an input whose first byte is not  *)
(* 'i', 'l', 'd' or a digit, is an Err: never Ok, never the None sentinel. *)
(***************************************************************************)
CexC7 ==
  (/\ Returned
   /\ \/ Len(input) = 0
      \/ /\ input[1] \notin {INT_DELIM_BEGIN, LIST_DELIM_BEGIN, DICT_DELIM_BEGIN}
         /\ ~IsDigit(input[1]))
    => result.kind = "Err"

(***************************************************************************)
(* C8 (as claimed).  <decimal L> ':' <bytes>: with at least L bytes behind *)
(* the ':' the result is Ok with exactly the first L of them, whatever     *)
(* their values, and consumed = prefix length + 1 + L; with fewer it is an *)
(* Err.  A digit-led prefix with a non-digit before the ':' is an Err.     *)
(* The lengths of the "big" family, around usize::MAX, are declared over   *)
(* at most one byte: an Err but for a length of one with its byte there.   *)
(***************************************************************************)
CexC8 ==
  /\ (Returned /\ origin.kind = "str") =>
       LET L == origin.n
           bytes == origin.items[1]
       IN IF Len(bytes) >= L
          THEN /\ result.kind = "Ok"
               /\ result.value = BStr(Take(bytes, L))
               /\ result.consumed = Len(ToDecimal(L)) + 1 + L
          ELSE result.kind = "Err"
  /\ (/\ Returned
      /\ Len(input) > 0
      /\ IsDigit(input[1])
      /\ ScanTo(input, 0, COLON_DELIM) < Len(input)
      /\ \E k \in 1..ScanTo(input, 0, COLON_DELIM) : ~IsDigit(input[k]))
       => result.kind = "Err"
  /\ (Returned /\ origin.kind = "big") =>
       LET L == ParseUsize(origin.items[1])
           bytes == origin.items[2]
       IN IF L.ok /\ BigLeq(L.val, Usize(Len(bytes)))
          THEN /\ result.kind = "Ok"
               /\ result.value = BStr(Take(bytes, ToNat(L.val)))
               /\ result.consumed = Len(origin.items[1]) + 1 + ToNat(L.val)
          ELSE result.kind = "Err"

ListWithinStack ==
  (Returned /\ origin.kind = "list" /\ AllWhole(origin.items)) =>
    /\ result.kind = "Ok"
    /\ result.value = BList(ItemValues(origin.items))
    /\ result.consumed = 1 + SumConsumed(origin.items) + 1

(***************************************************************************)
(* C10 (as claimed).  'i' <decimal N> 'e' decodes to Ok((Integer(N), the   *)
(* length of the input)) for every N of the signed 64-bit range; checked   *)
(* for the N of Integers16.                                                *)
(***************************************************************************)
CexC10 ==
  (Returned /\ origin.kind = "int") =>
    /\ result.kind = "Ok"
    /\ result.value = BInt(origin.n)
    /\ result.consumed = Len(input)

====
